---- MODULE Spec2Model ----
(***************************************************************************)
(* The Olist recommendation pipeline.                                      *)
(*                                                                         *)
(* Stage 1, data_preprocessing.py: one join query, a summed payment total, *)
(* de-duplication, timestamp parsing, the repeat / first-time split, the   *)
(* recombined labelled table and the per (customer, product) mean rating.  *)
(* Stage 2, models.py: the global and the per-state popularity rankings.   *)
(*                                                                         *)
(* A DataFrame is a record [columns, rows]: the set of its column names    *)
(* and the sequence of its rows, each row a record [label, cells] of its   *)
(* index label and its cells (a record keyed by column name).              *)
(***************************************************************************)
EXTENDS Integers, Sequences, FiniteSets, TLC

VARIABLES
    orders,            \* the database: the sequence of orders, order_id = position
    pc,                \* the statement of main() to run next, "done" or "failed"
    raised,            \* the exception that ended the run, or NoError
    olist_data,        \* main's olist_data
    repeater_data,     \* main's repeater_data
    first_timer_data,  \* main's first_timer_data
    files,             \* the csv files written under data/, in write order
    combined_df,       \* models.py, per run: the combined_data table as loaded
    n_recs,            \* models.py: the number of items asked for
    stage,             \* models.py, per run: the call to make next, "done" or "failed"
    model_files,       \* models.py, per run: the csv files written, in write order
    model_raised       \* models.py, per run: the exception that ended it, or NoError

prep_vars == <<orders, pc, raised, olist_data, repeater_data, first_timer_data, files>>
model_vars == <<combined_df, n_recs, stage, model_files, model_raised>>
vars == <<prep_vars, model_vars>>

----------------------------------------------------------------------------
(* Bounds of the model. *)

\* rows of the join query result in a whole run of main()
MaxMainRows == 2
\* rows of the join query result when the cleaning functions are applied one by one
MaxRows == 4
\* rows of the combined_data table models.py loads
MaxData == 4
\* the largest n_recs asked for
MaxRecs == 3

----------------------------------------------------------------------------
(* The values the database holds. *)

\* customer and product identifiers, in the order groupby sorts its keys
SortedCustomers == <<"c1", "c2">>
SortedProducts == <<"A", "B">>
Customers == { SortedCustomers[i] : i \in DOMAIN SortedCustomers }
Products == { SortedProducts[i] : i \in DOMAIN SortedProducts }
Scores == {4, 5}
PayLines ==
    { [payment_type |-> "credit_card", payment_value |-> 30],
      [payment_type |-> "voucher", payment_value |-> 30],
      [payment_type |-> "voucher", payment_value |-> 20] }

\* A timestamp as the database returns it: NULL, or a text split into its
\* numeric fields and the separators between them.
Text(nums, seps) == [null |-> FALSE, nums |-> nums, seps |-> seps]
Null == [null |-> TRUE, nums |-> <<>>, seps |-> <<>>]
\* "2018/05/01 10:00:00"
GoodText == Text(<<2018, 5, 1, 10, 0, 0>>, <<"/", "/", " ", ":", ":">>)
\* "05/01/2018"
BadText == Text(<<5, 1, 2018>>, <<"/", "/">>)

\* (purchase, delivered, estimated) of one order: all three conforming, one of
\* them malformed, or the delivery date NULL (an order not delivered yet)
AllTimestamps ==
    { <<GoodText, GoodText, GoodText>>, <<BadText, GoodText, GoodText>>,
      <<GoodText, BadText, GoodText>>, <<GoodText, GoodText, BadText>>,
      <<GoodText, Null, GoodText>>, <<GoodText, Null, BadText>> }
ConformingTimestamps == { <<GoodText, GoodText, GoodText>> }

SeqsOfLen(S, n) == [1..n -> S]

\* the orders whose join yields at most r rows: items x payments
OrdersUpTo(stamps, r) ==
    UNION { UNION { { [customer_unique_id |-> c,
                       review_score |-> s,
                       timestamps |-> t,
                       items |-> it,
                       payments |-> pay] :
                      c \in Customers, s \in Scores, t \in stamps,
                      it \in SeqsOfLen(Products, i), pay \in SeqsOfLen(PayLines, p) } :
                    p \in 1..(r \div i) } :
            i \in 1..r }

JoinRows(o) == Len(o.items) * Len(o.payments)

\* db is a database of one or two orders whose join yields at most r rows
IsDatabase(db, stamps, r) ==
    \E o1 \in OrdersUpTo(stamps, r) :
        \/ db = <<o1>>
        \/ \E o2 \in OrdersUpTo(stamps, r - JoinRows(o1)) : db = <<o1, o2>>

----------------------------------------------------------------------------
(* DataFrame helpers. *)

NoFrame == [columns |-> {}, rows |-> <<>>]
\* two runs of models.py
Runs == {1, 2}
NoError == [type |-> "none", in |-> "none"]

RECURSIVE Pick(_, _, _)
\* the subsequence of s at the positions in I, from position k on
Pick(s, I, k) ==
    IF k > Len(s) THEN <<>>
    ELSE (IF k \in I THEN <<s[k]>> ELSE <<>>) \o Pick(s, I, k + 1)

RECURSIVE SumSeq(_)
SumSeq(s) == IF s = <<>> THEN 0 ELSE Head(s) + SumSeq(Tail(s))

RECURSIVE Flatten(_)
Flatten(ss) == IF ss = <<>> THEN <<>> ELSE Head(ss) \o Flatten(Tail(ss))

Column(data, col) == [i \in 1..Len(data.rows) |-> data.rows[i].cells[col]]

\* data[col] = values: add or overwrite a column, one value per row
WithColumn(data, col, values) ==
    [columns |-> data.columns \cup {col},
     rows |-> [i \in 1..Len(data.rows) |->
                  [label |-> data.rows[i].label,
                   cells |-> (col :> values[i]) @@ data.rows[i].cells]]]

\* a column holding one value in every row
Scalar(data, v) == [i \in 1..Len(data.rows) |-> v]

\* data.drop(col, axis=1) on a frame that has the column
DropColumn(data, col) ==
    [columns |-> data.columns \ {col},
     rows |-> [i \in 1..Len(data.rows) |->
                  [label |-> data.rows[i].label,
                   cells |-> [c \in (DOMAIN data.rows[i].cells) \ {col} |->
                                 data.rows[i].cells[c]]]]]

\* what to_csv(index=False) writes: the columns and the cells, not the index
Csv(data) ==
    [columns |-> data.columns,
     rows |-> [i \in 1..Len(data.rows) |-> data.rows[i].cells]]

SaveCsv(fs, data, file_name) == Append(fs, [name |-> file_name, content |-> Csv(data)])

FileNames == [i \in 1..Len(files) |-> files[i].name]

----------------------------------------------------------------------------
(* query_aws: the inner join of orders, order items and payments. *)

QueryColumns ==
    {"customer_unique_id", "order_id", "product_id",
     "order_purchase_timestamp", "order_delivered_customer_date",
     "order_estimated_delivery_date", "payment_type", "payment_value",
     "review_score"}

\* the rows of one order: one per (order item, payment line)
OrderJoin(db, oid) ==
    LET o == db[oid]
        np == Len(o.payments)
    IN  [k \in 1..(Len(o.items) * np) |->
            [customer_unique_id |-> o.customer_unique_id,
             order_id |-> oid,
             product_id |-> o.items[((k - 1) \div np) + 1],
             order_purchase_timestamp |-> o.timestamps[1],
             order_delivered_customer_date |-> o.timestamps[2],
             order_estimated_delivery_date |-> o.timestamps[3],
             payment_type |-> o.payments[((k - 1) % np) + 1].payment_type,
             payment_value |-> o.payments[((k - 1) % np) + 1].payment_value,
             review_score |-> o.review_score]]

\* pd.read_sql(query, aws_engine): the joined rows, order by order, labelled
\* from 0. Every order has one review, joined to each of its rows.
QueryAws(db) ==
    LET cells == Flatten([oid \in 1..Len(db) |-> OrderJoin(db, oid)])
    IN  [columns |-> QueryColumns,
         rows |-> [i \in 1..Len(cells) |-> [label |-> i - 1, cells |-> cells[i]]]]

----------------------------------------------------------------------------
(* create_total_payment_value *)

\* data['payment_value'].groupby(data['order_id']).transform('sum')
GroupSum(data, col, by, key) ==
    SumSeq(Column([columns |-> data.columns,
                   rows |-> SelectSeq(data.rows, LAMBDA r : r.cells[by] = key)], col))

CreateTotalPaymentValue(data) ==
    LET total == [i \in 1..Len(data.rows) |->
                     GroupSum(data, "payment_value", "order_id",
                              data.rows[i].cells["order_id"])]
    IN  DropColumn(WithColumn(data, "total_payment", total), "payment_value")

----------------------------------------------------------------------------
(* duplicates *)

\* drop_duplicates(keep='last')
DropDuplicatesKeepLast(data) ==
    LET n == Len(data.rows)
        kept == { i \in 1..n : \A j \in (i + 1)..n : data.rows[j].cells # data.rows[i].cells }
    IN  [columns |-> data.columns, rows |-> Pick(data.rows, kept, 1)]

\* drop_duplicates(keep='first')
Duplicates(data) ==
    LET n == Len(data.rows)
        kept == { i \in 1..n : \A j \in 1..(i - 1) : data.rows[j].cells # data.rows[i].cells }
    IN  [columns |-> data.columns, rows |-> Pick(data.rows, kept, 1)]

----------------------------------------------------------------------------
(* convert_to_datetime *)

TimestampColumns ==
    <<"order_purchase_timestamp", "order_delivered_customer_date",
      "order_estimated_delivery_date">>

\* the separators of format="%Y/%m/%d %H:%M:%S"
FormatSeps == <<"/", "/", " ", ":", ":">>

\* the text matches the format exactly
Conforms(v) ==
    /\ ~v.null
    /\ v.seps = FormatSeps
    /\ Len(v.nums) = 6
    /\ v.nums[1] \in 1..9999 /\ v.nums[2] \in 1..12 /\ v.nums[3] \in 1..31
    /\ v.nums[4] \in 0..23 /\ v.nums[5] \in 0..59 /\ v.nums[6] \in 0..59

Malformed(v) == ~v.null /\ ~Conforms(v)

NaT == [nat |-> TRUE, fields |-> <<>>]
Timestamp(nums) == [nat |-> FALSE, fields |-> nums]

\* pd.to_datetime(..., errors='coerce'): nothing raises
ToDatetimeCoerces(data, col) == FALSE

\* pd.to_datetime(column, format=...) raises ValueError (errors='raise' is the default)
ToDatetimeRaises(data, col) ==
    \E i \in 1..Len(data.rows) : Malformed(data.rows[i].cells[col])

\* the converted column, assigned back in place; NULL becomes NaT (a malformed
\* text gets here only if to_datetime did not raise)
ToDatetime(data, col) ==
    WithColumn(data, col,
               [i \in 1..Len(data.rows) |->
                   IF Conforms(data.rows[i].cells[col])
                   THEN Timestamp(data.rows[i].cells[col].nums)
                   ELSE NaT])

RECURSIVE ConvertFrom(_, _)
\* the three assignments of convert_to_datetime from the k-th on: the frame as
\* the function leaves it and the column whose conversion raised ("" if none)
ConvertFrom(data, k) ==
    IF k > Len(TimestampColumns) THEN [data |-> data, failed |-> ""]
    ELSE IF ToDatetimeRaises(data, TimestampColumns[k])
         THEN [data |-> data, failed |-> TimestampColumns[k]]
         ELSE ConvertFrom(ToDatetime(data, TimestampColumns[k]), k + 1)

ConvertToDatetime(data) == ConvertFrom(data, 1)

----------------------------------------------------------------------------
(* repeat_and_first_time *)

\* len(x) of the group of customer c
GroupLen(data, c) ==
    Cardinality({ i \in 1..Len(data.rows) : data.rows[i].cells["customer_unique_id"] = c })

\* rows of the groups of more than two rows
RepeatersOverTwo(data) ==
    [columns |-> data.columns,
     rows |-> SelectSeq(data.rows,
                        LAMBDA r : GroupLen(data, r.cells["customer_unique_id"]) > 2)]

\* data.groupby('customer_unique_id').filter(lambda x: len(x) > 1): the rows of
\* the groups kept, in their original order
Repeaters(data) ==
    [columns |-> data.columns,
     rows |-> SelectSeq(data.rows,
                        LAMBDA r : GroupLen(data, r.cells["customer_unique_id"]) > 1)]

\* data.groupby('customer_unique_id').filter(lambda x: len(x) == 1)
FirstTimers(data) ==
    [columns |-> data.columns,
     rows |-> SelectSeq(data.rows,
                        LAMBDA r : GroupLen(data, r.cells["customer_unique_id"]) = 1)]

----------------------------------------------------------------------------
(* regenerate_dataset_with_indicators *)

Concat(a, b) == [columns |-> a.columns \cup b.columns, rows |-> a.rows \o b.rows]

\* reset_index(): the old labels become the column 'index', the labels restart at 0
ResetIndex(data) ==
    [columns |-> data.columns \cup {"index"},
     rows |-> [i \in 1..Len(data.rows) |->
                  [label |-> i - 1,
                   cells |-> ("index" :> data.rows[i].label) @@ data.rows[i].cells]]]

\* drop(col, axis=1) raises KeyError when the frame has no such column
DropRaises(data, col) == col \notin data.columns

----------------------------------------------------------------------------
(* create_user_ratings_df *)

RECURSIVE Gcd(_, _)
Gcd(a, b) == IF b = 0 THEN a ELSE Gcd(b, a % b)

\* the mean of a non-empty list of scores, as a fraction in lowest terms
Mean(scores) ==
    LET s == SumSeq(scores)
        n == Len(scores)
        g == Gcd(s, n)
    IN  [num |-> s \div g, den |-> n \div g]

\* the (customer, product) keys in the order groupby sorts them
SortedPairs ==
    Flatten([i \in DOMAIN SortedCustomers |->
                [j \in DOMAIN SortedProducts |-> <<SortedCustomers[i], SortedProducts[j]>>]])

PairRows(data, pair) ==
    SelectSeq(data.rows, LAMBDA r : /\ r.cells["customer_unique_id"] = pair[1]
                                    /\ r.cells["product_id"] = pair[2])

\* groupby([customer, product])['review_score'].agg(['mean']).reset_index(),
\* with 'mean' renamed 'estimator' and 'product_id' renamed 'productId'
UserRatings(data) ==
    LET keys == SelectSeq(SortedPairs, LAMBDA pair : PairRows(data, pair) # <<>>)
        Scores_(pair) == [i \in 1..Len(PairRows(data, pair)) |->
                             PairRows(data, pair)[i].cells["review_score"]]
    IN  [columns |-> {"customer_unique_id", "productId", "estimator"},
         rows |-> [k \in 1..Len(keys) |->
                      [label |-> k - 1,
                       cells |-> [customer_unique_id |-> keys[k][1],
                                  productId |-> keys[k][2],
                                  estimator |-> Mean(Scores_(keys[k]))]]]]

----------------------------------------------------------------------------
(* main() of data_preprocessing.py, one statement per step. *)

Fail(type, where) ==
    /\ pc' = "failed"
    /\ raised' = [type |-> type, in |-> where]

RunQueryAws ==
    /\ pc = "query_aws"
    /\ olist_data' = QueryAws(orders)
    /\ pc' = "create_total_payment_value"
    /\ UNCHANGED <<orders, raised, repeater_data, first_timer_data, files>>
    /\ UNCHANGED model_vars

RunCreateTotalPaymentValue ==
    /\ pc = "create_total_payment_value"
    /\ olist_data' = CreateTotalPaymentValue(olist_data)
    /\ pc' = "duplicates"
    /\ UNCHANGED <<orders, raised, repeater_data, first_timer_data, files>>
    /\ UNCHANGED model_vars

RunDuplicates ==
    /\ pc = "duplicates"
    /\ olist_data' = Duplicates(olist_data)
    /\ pc' = "convert_to_datetime"
    /\ UNCHANGED <<orders, raised, repeater_data, first_timer_data, files>>
    /\ UNCHANGED model_vars

RunConvertToDatetime ==
    /\ pc = "convert_to_datetime"
    /\ LET res == ConvertToDatetime(olist_data)
       IN  /\ olist_data' = res.data
           /\ IF res.failed # ""
              THEN Fail("ValueError", "convert_to_datetime")
              ELSE pc' = "repeat_and_first_time" /\ UNCHANGED raised
    /\ UNCHANGED <<orders, repeater_data, first_timer_data, files>>
    /\ UNCHANGED model_vars

RunRepeatAndFirstTime ==
    /\ pc = "repeat_and_first_time"
    /\ repeater_data' = Repeaters(olist_data)
    /\ first_timer_data' = FirstTimers(olist_data)
    /\ files' = SaveCsv(SaveCsv(files, Repeaters(olist_data), "repeater_data"),
                        FirstTimers(olist_data), "first_timers_data")
    /\ pc' = "regenerate_dataset_with_indicators"
    /\ UNCHANGED <<orders, raised, olist_data>>
    /\ UNCHANGED model_vars

RunRegenerateDatasetWithIndicators ==
    /\ pc = "regenerate_dataset_with_indicators"
    /\ LET repeaters == WithColumn(repeater_data, "repeater", Scalar(repeater_data, 1))
           first_timers == WithColumn(first_timer_data, "repeater", Scalar(first_timer_data, 0))
           combined == Concat(repeaters, first_timers)
       IN  /\ repeater_data' = repeaters
           /\ first_timer_data' = first_timers
           /\ IF DropRaises(combined, "Unnamed: 0")
              THEN Fail("KeyError", "regenerate_dataset_with_indicators")
                   /\ UNCHANGED files
              ELSE /\ files' = SaveCsv(files,
                                       ResetIndex(DropColumn(combined, "Unnamed: 0")),
                                       "combined_data")
                   /\ pc' = "create_user_ratings_df"
                   /\ UNCHANGED raised
    /\ UNCHANGED <<orders, olist_data>>
    /\ UNCHANGED model_vars

\* create_user_ratings_df applied to the subset repeat_and_first_time returned.
\* main() calls it after regenerate_dataset_with_indicators.
RunCreateUserRatingsDf ==
    /\ pc = "regenerate_dataset_with_indicators"
    /\ files' = SaveCsv(files, UserRatings(repeater_data), "repeat_user_ratings_data")
    /\ pc' = "done"
    /\ UNCHANGED <<orders, raised, olist_data, repeater_data, first_timer_data>>
    /\ UNCHANGED model_vars

Start(stamps, r) ==
    /\ IsDatabase(orders, stamps, r)
    /\ pc = "query_aws"
    /\ raised = NoError
    /\ olist_data = NoFrame
    /\ repeater_data = NoFrame
    /\ first_timer_data = NoFrame
    /\ files = <<>>
    /\ combined_df = [run \in Runs |-> NoFrame]
    /\ n_recs = 0
    /\ stage = [run \in Runs |-> "done"]
    /\ model_files = [run \in Runs |-> <<>>]
    /\ model_raised = [run \in Runs |-> NoError]

Init == Start(AllTimestamps, MaxMainRows)

\* main(): regenerate_dataset_with_indicators never returns (its drop raises),
\* so the call of create_user_ratings_df that follows it is not a step of a run
Next ==
    \/ RunQueryAws
    \/ RunCreateTotalPaymentValue
    \/ RunDuplicates
    \/ RunConvertToDatetime
    \/ RunRepeatAndFirstTime
    \/ RunRegenerateDatasetWithIndicators

Spec == Init /\ [][Next]_vars

\* The cleaning and feature functions applied one after the other to a query
\* result, create_user_ratings_df to the repeat subset.
InitFn == Start(ConformingTimestamps, MaxRows)

NextFn ==
    \/ RunQueryAws
    \/ RunCreateTotalPaymentValue
    \/ RunDuplicates
    \/ RunConvertToDatetime
    \/ RunRepeatAndFirstTime
    \/ RunCreateUserRatingsDf

SpecFn == InitFn /\ [][NextFn]_vars

----------------------------------------------------------------------------
(* models.py: the popularity rankings. *)

StateIds == {"SP", "RJ"}
ItemIds == {"A", "B", "C"}
CombinedColumns == {"customer_state", "product_id"}

Frame(cells) ==
    [columns |-> CombinedColumns,
     rows |-> [i \in 1..Len(cells) |-> [label |-> i - 1, cells |-> cells[i]]]]

Reverse(s) == [i \in 1..Len(s) |-> s[Len(s) + 1 - i]]

\* the distinct values of a column in the order they first appear (unique(),
\* and the order in which value_counts tallies its keys)
Unique(col) ==
    Pick(col, { i \in 1..Len(col) : \A j \in 1..(i - 1) : col[j] # col[i] }, 1)

CountOf(col, v) == Cardinality({ i \in 1..Len(col) : col[i] = v })

Tally(col) ==
    [k \in 1..Len(Unique(col)) |->
        [key |-> Unique(col)[k], count |-> CountOf(col, Unique(col)[k])]]

Without(s, i) == [k \in 1..(Len(s) - 1) |-> IF k < i THEN s[k] ELSE s[k + 1]]

MaxOf(S) == CHOOSE x \in S : \A y \in S : y <= x
MinOf(S) == CHOOSE x \in S : \A y \in S : x <= y

RECURSIVE SortAscending(_)
\* sort_values(ascending=True)
SortAscending(series) ==
    IF series = <<>> THEN <<>>
    ELSE LET low == MinOf({ series[i].count : i \in 1..Len(series) })
             i == MinOf({ k \in 1..Len(series) : series[k].count = low })
         IN  <<series[i]>> \o SortAscending(Without(series, i))

RECURSIVE SortDescending(_)
\* sort_values(ascending=False): by count, largest first. The default sort kind
\* is numpy's quicksort, an insertion sort on inputs this short: equal counts
\* stay in the order they came in, so their order follows the row order.
SortDescending(series) ==
    IF series = <<>> THEN <<>>
    ELSE LET top == MaxOf({ series[i].count : i \in 1..Len(series) })
             i == MinOf({ k \in 1..Len(series) : series[k].count = top })
         IN  <<series[i]>> \o SortDescending(Without(series, i))

\* Series.value_counts(): the tally, sorted by count, largest first
ValueCounts(col) == SortDescending(Tally(col))

\* series[:n]
Take(series, n) == SubSeq(series, 1, IF n < Len(series) THEN n ELSE Len(series))

Index(series) == [k \in 1..Len(series) |-> series[k].key]

\* value_counts().sort_values(ascending=False)[:n_recs].index
TopItems(col, n) == Index(Take(SortDescending(ValueCounts(col)), n))

\* pd.DataFrame(list(top_n_items)): one column, named 0
FindPopularItems(data, n) ==
    LET top_n_items == TopItems(Column(data, "product_id"), n)
    IN  [columns |-> {"0"},
         rows |-> [k \in 1..Len(top_n_items) |->
                      [label |-> k - 1, cells |-> [c \in {"0"} |-> top_n_items[k]]]]]

\* data[data.customer_state == state]
Where(data, col, v) ==
    [columns |-> data.columns, rows |-> SelectSeq(data.rows, LAMBDA r : r.cells[col] = v)]

\* the loop of popular_in_your_area: top_in_area_dict
TopInArea(data, n) ==
    [state \in { data.rows[i].cells["customer_state"] : i \in 1..Len(data.rows) } |->
        TopItems(Column(Where(data, "customer_state", state), "product_id"), n)]

\* pd.DataFrame(dict of Index objects) raises ValueError unless all have one length
FrameOfDictRaises(dict) ==
    \E a, b \in DOMAIN dict : Len(dict[a]) # Len(dict[b])

\* pd.DataFrame(dict of Index objects of one length): a column per key
FrameOfDict(dict) ==
    LET n == IF DOMAIN dict = {} THEN 0 ELSE Len(dict[CHOOSE a \in DOMAIN dict : TRUE])
    IN  [columns |-> DOMAIN dict,
         rows |-> [k \in 1..n |->
                      [label |-> k - 1, cells |-> [a \in DOMAIN dict |-> dict[a][k]]]]]

\* find_popular_items(combined_df, n_recs)
RunFindPopularItems(run) ==
    /\ stage[run] = "find_popular_items"
    /\ model_files' =
          [model_files EXCEPT
              ![run] = SaveCsv(@, FindPopularItems(combined_df[run], n_recs),
                               "hot_items")]
    /\ stage' = [stage EXCEPT ![run] = "popular_in_your_area"]
    /\ UNCHANGED <<combined_df, n_recs, model_raised>>
    /\ UNCHANGED prep_vars

\* popular_in_your_area(combined_df, n_recs)
RunPopularInYourArea(run) ==
    /\ stage[run] = "popular_in_your_area"
    /\ LET top_in_area_dict == TopInArea(combined_df[run], n_recs)
       IN  IF FrameOfDictRaises(top_in_area_dict)
           THEN /\ stage' = [stage EXCEPT ![run] = "failed"]
                /\ model_raised' =
                      [model_raised EXCEPT
                          ![run] = [type |-> "ValueError", in |-> "popular_in_your_area"]]
                /\ UNCHANGED model_files
           ELSE /\ model_files' =
                      [model_files EXCEPT
                          ![run] = SaveCsv(@, FrameOfDict(top_in_area_dict), "in_your_area")]
                /\ stage' = [stage EXCEPT ![run] = "done"]
                /\ UNCHANGED model_raised
    /\ UNCHANGED <<combined_df, n_recs>>
    /\ UNCHANGED prep_vars

\* Two runs of the rankings on the same rows of combined_data, the second with
\* the rows in the reverse order. (final_model, which main() of models.py calls
\* first, is the recommender library's and writes none of these files.)
InitModels ==
    /\ \E len \in 1..MaxData :
          \E cells \in [1..len -> [customer_state : StateIds, product_id : ItemIds]] :
              combined_df = (1 :> Frame(cells)) @@ (2 :> Frame(Reverse(cells)))
    /\ n_recs \in 0..MaxRecs
    /\ stage = [run \in Runs |-> "find_popular_items"]
    /\ model_files = [run \in Runs |-> <<>>]
    /\ model_raised = [run \in Runs |-> NoError]
    /\ orders = <<>>
    /\ pc = "done"
    /\ raised = NoError
    /\ olist_data = NoFrame
    /\ repeater_data = NoFrame
    /\ first_timer_data = NoFrame
    /\ files = <<>>

NextModels ==
    \E run \in Runs :
        \/ RunFindPopularItems(run)
        \/ RunPopularInYourArea(run)

SpecModels == InitModels /\ [][NextModels]_vars

----------------------------------------------------------------------------
(* Properties of stage 1. *)

Rows(data) == 1..Len(data.rows)
Occurrences(row, rows) == Cardinality({ i \in 1..Len(rows) : rows[i] = row })
CustomersIn(data) == { data.rows[i].cells["customer_unique_id"] : i \in Rows(data) }

Ended == pc \in {"done", "failed"}
HasMalformed(db) ==
    \E oid \in 1..Len(db) : \E k \in 1..3 : Malformed(db[oid].timestamps[k])

FourArtifacts ==
    <<"repeater_data", "first_timers_data", "combined_data", "repeat_user_ratings_data">>

\* C1: a run of main() on a query result whose timestamps all conform ends
\* normally, with the four artifacts written in order: repeater_data,
\* first_timers_data, combined_data, repeat_user_ratings_data.
C1_RunPersistsFourArtifacts ==
    (Ended /\ ~HasMalformed(orders)) =>
        /\ pc = "done"
        /\ raised = NoError
        /\ FileNames = FourArtifacts

\* the sum of an order's payment lines, each line counted once
PaymentSum(o) == SumSeq([i \in 1..Len(o.payments) |-> o.payments[i].payment_value])

\* C2: after create_total_payment_value and duplicates, every row of an order
\* carries the sum of that order's payment lines, each counted once, whatever
\* the number of line items and duplicate rows; payment_value is gone.
C2_TotalPaymentIsOrderSum ==
    pc = "convert_to_datetime" =>
        /\ "payment_value" \notin olist_data.columns
        /\ \A i \in Rows(olist_data) :
              LET cells == olist_data.rows[i].cells
              IN  /\ "payment_value" \notin DOMAIN cells
                  /\ cells["total_payment"] = PaymentSum(orders[cells["order_id"]])

\* the distinct orders of customer c in the table
OrdersOf(data, c) ==
    { data.rows[i].cells["order_id"] :
        i \in { j \in Rows(data) : data.rows[j].cells["customer_unique_id"] = c } }

\* C3: repeat_and_first_time puts a customer in the repeat subset exactly when
\* the customer has more than one distinct order in the cleaned table, and in
\* the first-time subset exactly when the customer has exactly one order.
C3_RepeatMeansSeveralOrders ==
    pc = "regenerate_dataset_with_indicators" =>
        \A c \in CustomersIn(olist_data) :
            /\ c \in CustomersIn(repeater_data) <=> Cardinality(OrdersOf(olist_data, c)) > 1
            /\ c \in CustomersIn(first_timer_data) <=> Cardinality(OrdersOf(olist_data, c)) = 1

\* C4: the repeat and first-time subsets partition the cleaned table: every
\* row of it is in exactly one of them, exactly once, none is missing or added,
\* and no customer has rows in both.
C4_SubsetsPartitionTable ==
    pc = "regenerate_dataset_with_indicators" =>
        /\ \A i \in Rows(olist_data) :
              Occurrences(olist_data.rows[i], repeater_data.rows)
                + Occurrences(olist_data.rows[i], first_timer_data.rows) = 1
        /\ Len(repeater_data.rows) + Len(first_timer_data.rows) = Len(olist_data.rows)
        /\ CustomersIn(repeater_data) \cap CustomersIn(first_timer_data) = {}
        /\ CustomersIn(repeater_data) \cup CustomersIn(first_timer_data)
             = CustomersIn(olist_data)

\* a split with both subsets non-empty
C4_Witness ==
    /\ pc = "regenerate_dataset_with_indicators"
    /\ repeater_data.rows # <<>>
    /\ first_timer_data.rows # <<>>

RatingsFile == (CHOOSE i \in 1..Len(files) : files[i].name = "repeat_user_ratings_data")

\* the (customer, product) pairs of the table
PairsIn(data) ==
    { <<data.rows[i].cells["customer_unique_id"], data.rows[i].cells["product_id"]>> :
        i \in Rows(data) }

\* the orders in which the pair's customer bought the pair's product
PairOrders(data, pair) ==
    { PairRows(data, pair)[i].cells["order_id"] : i \in 1..Len(PairRows(data, pair)) }

\* C5: create_user_ratings_df writes exactly one row per (customer, product)
\* pair of the repeat subset, whose estimator is the mean of the review scores
\* of the pair's orders, each order counted once whatever rows it contributes.
C5_EstimatorIsMeanOverOrders ==
    pc = "done" =>
        LET out == files[RatingsFile].content.rows
        IN  /\ Len(out) = Cardinality(PairsIn(repeater_data))
            /\ \A pair \in PairsIn(repeater_data) :
                  \E k \in 1..Len(out) :
                      /\ out[k].customer_unique_id = pair[1]
                      /\ out[k].productId = pair[2]
                      /\ LET O == PairOrders(repeater_data, pair)
                             total == SumSeq([oid \in 1..Len(orders) |->
                                                 IF oid \in O THEN orders[oid].review_score
                                                 ELSE 0])
                         IN  out[k].estimator.num * Cardinality(O)
                               = total * out[k].estimator.den

\* C9: a timestamp that does not conform to the format makes the run fail in
\* convert_to_datetime with nothing written: no statement after it runs, no
\* artifact is ever persisted, and no malformed value has become NaT.
C9_MalformedTimestampAborts ==
    HasMalformed(orders) =>
        /\ files = <<>>
        /\ pc \in {"query_aws", "create_total_payment_value", "duplicates",
                   "convert_to_datetime", "failed"}
        /\ pc = "failed" => raised = [type |-> "ValueError", in |-> "convert_to_datetime"]
        /\ \A i \in Rows(olist_data) : \A k \in 1..3 :
              olist_data.rows[i].cells[TimestampColumns[k]] = NaT
                => orders[olist_data.rows[i].cells["order_id"]].timestamps[k] = Null

\* the run failed on the last column: the first two were converted in place,
\* a NULL delivery date to NaT, before the malformed estimate raised
C9_Witness ==
    /\ pc = "failed"
    /\ raised = [type |-> "ValueError", in |-> "convert_to_datetime"]
    /\ \E i \in Rows(olist_data) :
          /\ olist_data.rows[i].cells["order_delivered_customer_date"] = NaT
          /\ Malformed(olist_data.rows[i].cells["order_estimated_delivery_date"])

\* the table duplicates() was given
BeforeDuplicates == CreateTotalPaymentValue(QueryAws(orders))

\* C10: duplicates is idempotent and keeps first occurrences: no two rows of
\* its result are identical, every distinct row of its input appears exactly
\* once, each under the label of its first occurrence, in the input's order.
C10_DuplicatesKeepsFirst ==
    pc = "convert_to_datetime" =>
        LET T == BeforeDuplicates
            D == olist_data
        IN  /\ Duplicates(D) = D
            /\ \A i, j \in Rows(D) : i # j => D.rows[i].cells # D.rows[j].cells
            /\ \A i \in Rows(T) :
                  Cardinality({ k \in Rows(D) : D.rows[k].cells = T.rows[i].cells }) = 1
            /\ \A k \in Rows(D) :
                  /\ \E i \in Rows(T) : T.rows[i] = D.rows[k]
                  /\ \A i \in Rows(T) :
                        T.rows[i].cells = D.rows[k].cells => T.rows[i].label >= D.rows[k].label
            /\ \A k, l \in Rows(D) : k < l => D.rows[k].label < D.rows[l].label

\* duplicates dropped a row that stood between two rows it kept
C10_Witness ==
    /\ pc = "convert_to_datetime"
    /\ Len(olist_data.rows) < Len(BeforeDuplicates.rows)
    /\ \E k \in Rows(olist_data) :
          /\ k + 1 \in Rows(olist_data)
          /\ olist_data.rows[k + 1].label > olist_data.rows[k].label + 1

----------------------------------------------------------------------------
(* Properties of stage 2. *)

HasFile(run, file_name) ==
    \E i \in 1..Len(model_files[run]) : model_files[run][i].name = file_name

FileOf(run, file_name) ==
    model_files[run][CHOOSE i \in 1..Len(model_files[run]) :
                        model_files[run][i].name = file_name].content

\* the list find_popular_items persisted
HotItems(run) == [k \in 1..Len(FileOf(run, "hot_items").rows) |->
                     FileOf(run, "hot_items").rows[k]["0"]]

Purchases(run) == Column(combined_df[run], "product_id")
PurchasesIn(run, state) ==
    Column(Where(combined_df[run], "customer_state", state), "product_id")
StatesIn(run) ==
    { combined_df[run].rows[i].cells["customer_state"] : i \in Rows(combined_df[run]) }

Distinct(col) == { col[i] : i \in 1..Len(col) }
Least(a, b) == IF a < b THEN a ELSE b

\* list is a top-n ranking of the purchases col: min(n, distinct products)
\* distinct products, by non-increasing count, none left out with a strictly
\* higher count than one listed
IsTopRanking(list, col, n) ==
    /\ Len(list) = Least(n, Cardinality(Distinct(col)))
    /\ \A i \in 1..Len(list) : list[i] \in Distinct(col)
    /\ \A i, j \in 1..Len(list) : i # j => list[i] # list[j]
    /\ \A i, j \in 1..Len(list) : i < j => CountOf(col, list[i]) >= CountOf(col, list[j])
    /\ \A v \in Distinct(col) \ Distinct(list) :
          \A i \in 1..Len(list) : CountOf(col, v) <= CountOf(col, list[i])

Missing == "NaN"

\* C6: popular_in_your_area always writes in_your_area, one column per state
\* of the data; a state's column ranks the products bought in that state and,
\* when the state has fewer than N of them, ends in missing values.
C6_AreaTablePadsShortStates ==
    \A run \in Runs :
        stage[run] \in {"done", "failed"} =>
            /\ HasFile(run, "in_your_area")
            /\ LET T == FileOf(run, "in_your_area")
               IN  /\ T.columns = StatesIn(run)
                   /\ \A state \in StatesIn(run) :
                         \E m \in 0..Len(T.rows) :
                             /\ IsTopRanking([k \in 1..m |-> T.rows[k][state]],
                                             PurchasesIn(run, state), n_recs)
                             /\ \A k \in (m + 1)..Len(T.rows) : T.rows[k][state] = Missing

\* C7: find_popular_items persists exactly min(N, distinct products) distinct
\* products in non-increasing order of their count, and leaves out no product
\* with a strictly higher count than one it lists.
C7_HotItemsAreTopN ==
    \A run \in Runs :
        HasFile(run, "hot_items") => IsTopRanking(HotItems(run), Purchases(run), n_recs)

\* counts {A:2, B:1, C:1} and N = 2: A, then exactly one of B and C
C7_Witness ==
    \E run \in Runs :
        /\ HasFile(run, "hot_items")
        /\ n_recs = 2
        /\ CountOf(Purchases(run), "A") = 2
        /\ CountOf(Purchases(run), "B") = 1
        /\ CountOf(Purchases(run), "C") = 1
        /\ HotItems(run)[1] = "A"
        /\ HotItems(run)[2] \in {"B", "C"}

\* C8: two inputs with the same rows in a different order, and the same N,
\* give the same persisted top-N list.
C8_RowOrderDoesNotMatter ==
    (HasFile(1, "hot_items") /\ HasFile(2, "hot_items")) => HotItems(1) = HotItems(2)

====
